---- MODULE Spec2Model ----
(***************************************************************************)
(* Urban transport platform: the ingestion script (data-generator/         *)
(* generate.py), the Spark batch job (spark-jobs/analytics.py) and the     *)
(* query API (api/main.py), as one state machine over the Record Store     *)
(* (MongoDB collection transport.trips), the Counter Store (Cassandra      *)
(* tables trips_by_hour and trips_by_zone) and the artifact files          *)
(* (spark-jobs/output/*.json).                                              *)
(*                                                                         *)
(* Abstractions: a trip keeps the fields the aggregations read (city,      *)
(* zone_start, distance_km, hour, day_of_week, date); trip_id, user_id,    *)
(* zone_end, price_eur and the minutes of the timestamp are dropped, so    *)
(* two trips may be equal and the collection is a bag.  A date is the day  *)
(* number of its timestamp: "%Y-%m-%d" strings of one era sort as their    *)
(* days do.  distance_km is a whole number of kilometres and avg_distance  *)
(* is kept in hundredths of a kilometre.  The two scripts are run one at a *)
(* time by the operator, each once in a behaviour (their earlier runs are  *)
(* in the initial state); API requests arrive at any moment.               *)
(***************************************************************************)
EXTENDS Integers, Sequences, FiniteSets, Bags, TLC

\* ---------------------------------------------------------------- bounds
\* largest TOTAL_TRIPS an ingestion run is started with
MaxTrips == 2
\* largest BATCH_SIZE an ingestion run is started with
MaxBatch == 2

\* ------------------------------------------------------- generator inputs
\* generate.py:16, the first two cities of the list
cities == {"Paris", "Lyon"}
\* generate.py:17, the first two zones of the list
zones == {"Zone A", "Zone B"}
\* what random.randint / random.uniform draw at generate.py:62-66 and :80:
\* the day and hour of the timestamp and the distance
Draws == { [day |-> 1, hour |-> 8,  km |-> 10],
           [day |-> 2, hour |-> 17, km |-> 20] }

\* Python's None for an omitted query parameter
None == "<None>"
\* Python truthiness of an optional string parameter: `if city:`
Truthy(s) == s # None /\ s # ""

\* string comparison as Python, Spark and MongoDB order the names used here
NameOrder == << "", "Bordeaux", "Lyon", "Marseille", "Nice", "Paris", "Toulouse",
                "Zone A", "Zone B", "Zone C", "Zone D", "Zone E",
                "Friday", "Monday", "Saturday", "Sunday", "Thursday", "Tuesday",
                "Wednesday" >>
Rank(s) == CHOOSE i \in 1..Len(NameOrder) : NameOrder[i] = s

\* ts.strftime("%A"): day 1 is a Monday
DayNames == << "Monday", "Tuesday", "Wednesday", "Thursday", "Friday", "Saturday",
               "Sunday" >>
DayOfWeek(day) == DayNames[((day - 1) % 7) + 1]

\* the document built at generate.py:74-86 from one draw
MkTrip(c, z, d) ==
    [ city        |-> c,
      zone_start  |-> z,
      distance_km |-> d.km,
      hour        |-> d.hour,
      day_of_week |-> DayOfWeek(d.day),
      date        |-> d.day ]

Trips == { MkTrip(c, z, d) : c \in cities, z \in zones, d \in Draws }

HourKeys == { <<c, d.day, d.hour>> : c \in cities, d \in Draws }
ZoneKeys == cities \X zones

\* ------------------------------------------------------------- arithmetic
\* sum of a sequence of numbers
RECURSIVE SeqSum(_)
SeqSum(s) == IF s = << >> THEN 0 ELSE Head(s) + SeqSum(Tail(s))

\* the documents of a list, as a collection
RECURSIVE SeqToBag(_)
SeqToBag(s) == IF s = << >> THEN EmptyBag ELSE SetToBag({Head(s)}) (+) SeqToBag(Tail(s))

\* the documents of collection B that are in the set S, with their
\* multiplicities
Restrict(B, S) == [ x \in DOMAIN B \cap S |-> B[x] ]

\* total distance_km of the documents of B
RECURSIVE SumKm(_)
SumKm(B) ==
    IF DOMAIN B = {} THEN 0
    ELSE LET x == CHOOSE y \in DOMAIN B : TRUE
         IN  x.distance_km * B[x] + SumKm([ y \in DOMAIN B \ {x} |-> B[y] ])

Min(a, b) == IF a <= b THEN a ELSE b
Max(a, b) == IF a >= b THEN a ELSE b

\* all orderings of a finite set
RECURSIVE Perms(_)
Perms(S) ==
    IF S = {} THEN { << >> }
    ELSE UNION { { <<x>> \o p : p \in Perms(S \ {x}) } : x \in S }


\* a sort key is a tuple of numbers, compared column by column
RECURSIVE KeyLess(_, _)
KeyLess(a, b) ==
    /\ a # << >>
    /\ \/ Head(a) < Head(b)
       \/ Head(a) = Head(b) /\ KeyLess(Tail(a), Tail(b))

\* the sequences that order the finite set S by ascending sort key, key being
\* the function that gives each element its key; elements of equal key come
\* in any order, as Spark and MongoDB leave them
Ordered(S, key) ==
    { p \in Perms(S) : \A n, m \in 1..Len(p) : n < m => ~KeyLess(key[p[m]], key[p[n]]) }

\* round(sum / n, 2) in hundredths, halves away from zero (Spark round)
RoundHalfUp(sum, n) == (2 * 100 * sum + n) \div (2 * n)
\* round(sum / n, 2) in hundredths, halves to even (MongoDB $round)
RoundHalfEven(sum, n) ==
    LET q == (100 * sum) \div n
        r == (100 * sum) % n
    IN  IF 2 * r > n \/ (2 * r = n /\ q % 2 = 1) THEN q + 1 ELSE q

\* a count of distinct documents instead of documents
CountDistinct(B) == Cardinality(DOMAIN B)
\* number of documents of collection B
Count(B) == BagCardinality(B)

\* ------------------------------------------------------------------ state
VARIABLES
    collection,     \* Record Store: the bag of documents of transport.trips
    trips_by_hour,  \* Counter Store: trip_count per (city, date, hour)
    trips_by_zone,  \* Counter Store: trip_count per (city, zone)
    gen_pc,         \* where generate.py is
    total_trips,    \* TOTAL_TRIPS of the run
    batch_size,     \* BATCH_SIZE of the run
    i,              \* loop variable of the generation loop
    batch_docs,     \* the in-memory batch
    agg_pc,         \* where analytics.py is
    agg_k,          \* which of the five analyses analytics.py is at
    df,             \* the cached DataFrame
    pending,        \* the collected list about to be written
    artifact,       \* the files of the output directory, by name
    resp            \* the answer of the API to the request just served

vars == << collection, trips_by_hour, trips_by_zone, gen_pc, total_trips, batch_size,
           i, batch_docs, agg_pc, agg_k, df, pending, artifact, resp >>

genVars == << collection, trips_by_hour, trips_by_zone, gen_pc, total_trips,
              batch_size, i, batch_docs >>
aggVars == << agg_pc, agg_k, df, pending, artifact >>

\* the five files, in the order analytics.py writes them
Files == << "daily.json", "avg_distance.json", "rush_hours.json", "top_zones.json",
            "by_day_of_week.json" >>
FileSet == { Files[k] : k \in 1..Len(Files) }

\* a file of the output directory: missing, holding a JSON array, or holding
\* text that is not JSON (an empty or half-written file included)
Absent == [ state |-> "absent", rows |-> << >> ]
Malformed == [ state |-> "malformed", rows |-> << >> ]
Json(rows) == [ state |-> "json", rows |-> rows ]

\* no request has been served in this state
NoResp == [ family |-> "none", city |-> None, limit |-> 0, status |-> "none",
            reads |-> FALSE, rows |-> << >> ]

Last(s) == s[Len(s)]


\* ============================================================ generate.py
\* an increment that is lost
insert_hour_lost(tbl, c, d, h) == tbl
\* the prepared statement insert_hour: trip_count = trip_count + 1
insert_hour(tbl, c, d, h) == [ tbl EXCEPT ![<<c, d, h>>] = @ + 1 ]
\* an increment that is applied twice
insert_zone_twice(tbl, c, z) == [ tbl EXCEPT ![<<c, z>>] = @ + 2 ]
\* the prepared statement insert_zone: trip_count = trip_count + 1
insert_zone(tbl, c, z) == [ tbl EXCEPT ![<<c, z>>] = @ + 1 ]
\* an insert_many that writes the first document of the list only
insert_many_first(coll, docs) == coll (+) SeqToBag(<< docs[1] >>)
\* collection.insert_many(batch_docs)
insert_many(coll, docs) == coll (+) SeqToBag(docs)

\* the script is started with some TOTAL_TRIPS and BATCH_SIZE
\* and connects to MongoDB
GenStart ==
    /\ resp = NoResp
    /\ gen_pc = "idle"
    /\ agg_pc \in {"idle", "done", "aborted"}
    /\ \E N \in 0..MaxTrips, B \in 1..MaxBatch :
          /\ total_trips' = N
          /\ batch_size' = B
    /\ gen_pc' = "drop"
    /\ UNCHANGED resp
    /\ UNCHANGED << collection, trips_by_hour, trips_by_zone, i, batch_docs >>
    /\ UNCHANGED aggVars

\* a script that keeps the collection it finds
GenDropNothing ==
    /\ resp = NoResp
    /\ gen_pc = "drop"
    /\ gen_pc' = "truncate_hour"
    /\ UNCHANGED resp
    /\ UNCHANGED << collection, trips_by_hour, trips_by_zone, total_trips, batch_size,
                    i, batch_docs >>
    /\ UNCHANGED aggVars

\* a script that also removes the files of the Spark job
GenDropOutputs ==
    /\ resp = NoResp
    /\ gen_pc = "drop"
    /\ collection' = EmptyBag
    /\ artifact' = [ f \in FileSet |-> Absent ]
    /\ gen_pc' = "truncate_hour"
    /\ UNCHANGED resp
    /\ UNCHANGED << trips_by_hour, trips_by_zone, total_trips, batch_size, i, batch_docs >>
    /\ UNCHANGED << agg_pc, agg_k, df, pending >>

\* collection.drop()
GenDrop ==
    /\ resp = NoResp
    /\ gen_pc = "drop"
    /\ collection' = EmptyBag
    /\ gen_pc' = "truncate_hour"
    /\ UNCHANGED resp
    /\ UNCHANGED << trips_by_hour, trips_by_zone, total_trips, batch_size, i, batch_docs >>
    /\ UNCHANGED aggVars

\* TRUNCATE trips_by_hour
GenTruncateHour ==
    /\ resp = NoResp
    /\ gen_pc = "truncate_hour"
    /\ trips_by_hour' = [ k \in HourKeys |-> 0 ]
    /\ gen_pc' = "truncate_zone"
    /\ UNCHANGED resp
    /\ UNCHANGED << collection, trips_by_zone, total_trips, batch_size, i, batch_docs >>
    /\ UNCHANGED aggVars

\* TRUNCATE trips_by_zone, then batch_docs = [] and the loop begins
GenTruncateZone ==
    /\ resp = NoResp
    /\ gen_pc = "truncate_zone"
    /\ trips_by_zone' = [ k \in ZoneKeys |-> 0 ]
    /\ batch_docs' = << >>
    /\ i' = 0
    /\ gen_pc' = "loop"
    /\ UNCHANGED resp
    /\ UNCHANGED << collection, trips_by_hour, total_trips, batch_size >>
    /\ UNCHANGED aggVars

\* one pass of the loop up to batch_docs.append(trip)
GenTrip ==
    /\ resp = NoResp
    /\ gen_pc = "loop"
    /\ i < total_trips
    /\ \E c \in cities, z \in zones, d \in Draws :
          batch_docs' = Append(batch_docs, MkTrip(c, z, d))
    /\ gen_pc' = "insert_hour"
    /\ UNCHANGED resp
    /\ UNCHANGED << collection, trips_by_hour, trips_by_zone, total_trips, batch_size, i >>
    /\ UNCHANGED aggVars

\* session.execute(insert_hour, (city, date_str, ts.hour)); the trip of this
\* pass is the last one appended
GenInsertHour ==
    /\ resp = NoResp
    /\ gen_pc = "insert_hour"
    /\ LET trip == Last(batch_docs)
       IN  trips_by_hour' = insert_hour(trips_by_hour, trip.city, trip.date, trip.hour)
    /\ gen_pc' = "insert_zone"
    /\ UNCHANGED resp
    /\ UNCHANGED << collection, trips_by_zone, total_trips, batch_size, i, batch_docs >>
    /\ UNCHANGED aggVars

\* session.execute(insert_zone, (city, zone_start))
GenInsertZone ==
    /\ resp = NoResp
    /\ gen_pc = "insert_zone"
    /\ LET trip == Last(batch_docs)
       IN  trips_by_zone' = insert_zone(trips_by_zone, trip.city, trip.zone_start)
    /\ gen_pc' = "batch"
    /\ UNCHANGED resp
    /\ UNCHANGED << collection, trips_by_hour, total_trips, batch_size, i, batch_docs >>
    /\ UNCHANGED aggVars

\* if len(batch_docs) == BATCH_SIZE: insert_many and clear; end of the pass
GenBatch ==
    /\ resp = NoResp
    /\ gen_pc = "batch"
    /\ IF Len(batch_docs) = batch_size
       THEN /\ collection' = insert_many(collection, batch_docs)
            /\ batch_docs' = << >>
       ELSE UNCHANGED << collection, batch_docs >>
    /\ i' = i + 1
    /\ gen_pc' = "loop"
    /\ UNCHANGED resp
    /\ UNCHANGED << trips_by_hour, trips_by_zone, total_trips, batch_size >>
    /\ UNCHANGED aggVars

\* after the loop: if batch_docs: insert_many(batch_docs); the indexes and the
\* summary change nothing that is modelled
GenRest ==
    /\ resp = NoResp
    /\ gen_pc = "loop"
    /\ i = total_trips
    /\ IF batch_docs # << >>
       THEN collection' = insert_many(collection, batch_docs)
       ELSE UNCHANGED collection
    /\ gen_pc' = "done"
    /\ UNCHANGED resp
    /\ UNCHANGED << trips_by_hour, trips_by_zone, total_trips, batch_size, i, batch_docs >>
    /\ UNCHANGED aggVars

\* a store call raises (store unreachable, write refused): nothing catches
\* it and the process exits, its variables with it
GenFail ==
    /\ resp = NoResp
    /\ \/ gen_pc \in {"drop", "truncate_hour", "truncate_zone", "insert_hour",
                      "insert_zone"}
       \/ gen_pc = "batch" /\ Len(batch_docs) = batch_size
       \/ gen_pc = "loop" /\ i = total_trips /\ batch_docs # << >>
    /\ gen_pc' = "aborted"
    /\ total_trips' = 0
    /\ batch_size' = 1
    /\ i' = 0
    /\ batch_docs' = << >>
    /\ UNCHANGED resp
    /\ UNCHANGED << collection, trips_by_hour, trips_by_zone >>
    /\ UNCHANGED aggVars


\* =========================================================== analytics.py
\* df.groupBy(col).agg(count("*")): the documents of d whose column is k
\* (one operator per grouping column)
OfDate(d, k) == Restrict(d, { t \in DOMAIN d : t.date = k })
OfCity(d, k) == Restrict(d, { t \in DOMAIN d : t.city = k })
OfHour(d, k) == Restrict(d, { t \in DOMAIN d : t.hour = k })
OfZone(d, k) == Restrict(d, { t \in DOMAIN d : t.zone_start = k })
OfCityDay(d, c, w) ==
    Restrict(d, { t \in DOMAIN d : t.city = c /\ t.day_of_week = w })

\* Analyse 1 without its orderBy("date"): the rows in any order
daily_unordered(d) ==
    Perms({ [ date |-> k, trip_count |-> Count(OfDate(d, k)) ]
            : k \in { t.date : t \in DOMAIN d } })

\* Analyse 1: groupBy("date") count orderBy("date"), as daily_list
daily(d) ==
    LET rows ==
          { [ date |-> k, trip_count |-> Count(OfDate(d, k)) ]
            : k \in { t.date : t \in DOMAIN d } }
    IN  Ordered(rows, [ r \in rows |-> << r.date >> ])

\* Analyse 2: groupBy("city") round(avg(distance_km), 2), count,
\* orderBy("avg_distance", ascending=False), as avg_list
avg_dist(d) ==
    LET rows ==
          { [ city |-> k,
              avg_distance |-> RoundHalfUp(SumKm(OfCity(d, k)), Count(OfCity(d, k))),
              trip_count |-> Count(OfCity(d, k)) ]
            : k \in { t.city : t \in DOMAIN d } }
    IN  Ordered(rows, [ r \in rows |-> << 0 - r.avg_distance >> ])

\* Analyse 3: groupBy("hour") count orderBy("hour"), as rush_list
rush(d) ==
    LET rows ==
          { [ hour |-> k, trip_count |-> Count(OfHour(d, k)) ]
            : k \in { t.hour : t \in DOMAIN d } }
    IN  Ordered(rows, [ r \in rows |-> << r.hour >> ])

\* Analyse 4: groupBy("zone_start") count orderBy("trip_count",
\* ascending=False), as zones_list
top_zones(d) ==
    LET rows ==
          { [ zone |-> k, trip_count |-> Count(OfZone(d, k)) ]
            : k \in { t.zone_start : t \in DOMAIN d } }
    IN  Ordered(rows, [ r \in rows |-> << 0 - r.trip_count >> ])

\* Analyse 5: groupBy("city", "day_of_week") count
\* orderBy("city", "trip_count", ascending=False), as day_list: both columns
\* descending
by_day(d) ==
    LET rows ==
          { [ city |-> k[1], day_of_week |-> k[2],
                trip_count |-> Count(OfCityDay(d, k[1], k[2])) ]
              : k \in { <<t.city, t.day_of_week>> : t \in DOMAIN d } }
    IN  Ordered(rows, [ r \in rows |-> << 0 - Rank(r.city), 0 - r.trip_count >> ])

\* the lists analysis k may collect from the cached DataFrame
Collect(k, d) ==
    CASE k = 1 -> daily(d)
      [] k = 2 -> avg_dist(d)
      [] k = 3 -> rush(d)
      [] k = 4 -> top_zones(d)
      [] k = 5 -> by_day(d)

\* spark.read...load(), df.cache(), df.count(): the collection is read
AggStart ==
    /\ resp = NoResp
    /\ agg_pc = "idle"
    /\ gen_pc \in {"idle", "done", "aborted"}
    /\ df' = collection
    /\ agg_k' = 1
    /\ agg_pc' = "collect"
    /\ UNCHANGED resp
    /\ UNCHANGED << pending, artifact >>
    /\ UNCHANGED genVars

\* the Record Store is unreachable when the job loads it: the job ends there
AggLoadFail ==
    /\ resp = NoResp
    /\ agg_pc = "idle"
    /\ gen_pc \in {"idle", "done", "aborted"}
    /\ agg_k' = 1
    /\ agg_pc' = "aborted"
    /\ UNCHANGED resp
    /\ UNCHANGED << df, pending, artifact >>
    /\ UNCHANGED genVars

\* analysis agg_k is collected into its list, and open(path, "w") creates or
\* empties the file
AggCollect ==
    /\ resp = NoResp
    /\ agg_pc = "collect"
    /\ \E rows \in Collect(agg_k, df) : pending' = rows
    /\ artifact' = [ artifact EXCEPT ![Files[agg_k]] = Malformed ]
    /\ agg_pc' = "dump"
    /\ UNCHANGED resp
    /\ UNCHANGED << agg_k, df >>
    /\ UNCHANGED genVars

\* .collect() of analysis agg_k raises (Spark reads the Record Store again
\* for the partitions its cache has lost, and the store is unreachable): no
\* statement catches it, the job ends with the files it has written so far
AggFail ==
    /\ resp = NoResp
    /\ agg_pc = "collect"
    /\ agg_pc' = "aborted"
    /\ UNCHANGED resp
    /\ UNCHANGED << agg_k, df, pending, artifact >>
    /\ UNCHANGED genVars

\* json.dump(list, f) and the file is closed; the next analysis, or the end
AggDump ==
    /\ resp = NoResp
    /\ agg_pc = "dump"
    /\ artifact' = [ artifact EXCEPT ![Files[agg_k]] = Json(pending) ]
    /\ pending' = << >>
    /\ IF agg_k < Len(Files)
       THEN agg_k' = agg_k + 1 /\ agg_pc' = "collect"
       ELSE agg_k' = agg_k /\ agg_pc' = "done"
    /\ UNCHANGED resp
    /\ UNCHANGED df
    /\ UNCHANGED genVars


\* ================================================================ main.py
\* Query(10, ...) of top_zones
DefaultLimit == 10

\* what load_spark_result(filename) gives: None for a missing file, the
\* parsed list otherwise; json.load raises on text that is not JSON
load_raises(file) == file.state = "malformed"
load_spark_result(file) == IF file.state = "absent" THEN << >> ELSE file.rows
\* `if spark_data:` is false for None and for an empty list
spark_data_truthy(file) == file.state = "json" /\ file.rows # << >>

\* --- stages of the aggregation pipelines
\* {"$match": {"city": city}}
Match(coll, city) == Restrict(coll, { t \in DOMAIN coll : t.city = city })
\* {"$group": {"_id": "$date", "trip_count": {"$sum": 1}}}
GroupDate(coll) ==
    { [ _id |-> k, trip_count |-> Count(OfDate(coll, k)) ]
      : k \in { t.date : t \in DOMAIN coll } }
\* {"$group": {"_id": "$hour", "trip_count": {"$sum": 1}}}
GroupHour(coll) ==
    { [ _id |-> k, trip_count |-> Count(OfHour(coll, k)) ]
      : k \in { t.hour : t \in DOMAIN coll } }
\* {"$group": {"_id": "$city", "avg_distance": {"$avg": "$distance_km"},
\* "trip_count": {"$sum": 1}}}; the unrounded average is kept as sum and count
GroupCity(coll) ==
    { [ _id |-> k, sum_km |-> SumKm(OfCity(coll, k)),
        trip_count |-> Count(OfCity(coll, k)) ]
      : k \in { t.city : t \in DOMAIN coll } }
\* {"$group": {"_id": "$zone_start", "trip_count": {"$sum": 1}}}
GroupZone(coll) ==
    { [ _id |-> k, trip_count |-> Count(OfZone(coll, k)) ]
      : k \in { t.zone_start : t \in DOMAIN coll } }
\* {"$group": {"_id": {"city": "$city", "day": "$day_of_week"},
\* "trip_count": {"$sum": 1}}}
GroupCityDay(coll) ==
    { [ _id |-> [ city |-> k[1], day |-> k[2] ],
        trip_count |-> Count(OfCityDay(coll, k[1], k[2])) ]
      : k \in { <<t.city, t.day_of_week>> : t \in DOMAIN coll } }
\* {"$sort": {"_id": 1}}
SortById(docs) == Ordered(docs, [ r \in docs |-> << r._id >> ])
\* {"$sort": {"trip_count": -1}}
SortByCountDesc(docs) == Ordered(docs, [ r \in docs |-> << 0 - r.trip_count >> ])
\* no $sort stage: the groups come in any order
Unsorted(docs) == Perms(docs)
\* {"$limit": limit}, for a limit the server accepts
Limit(seq, limit) == SubSeq(seq, 1, Min(limit, Len(seq)))
\* the server refuses a $limit that is not positive
limit_raises(limit) == limit <= 0
\* {"$project": {"date": "$_id", "trip_count": 1, "_id": 0}}
ProjectDate(seq) ==
    [ n \in 1..Len(seq) |-> [ date |-> seq[n]._id, trip_count |-> seq[n].trip_count ] ]
\* {"$project": {"hour": "$_id", "trip_count": 1, "_id": 0}}
ProjectHour(seq) ==
    [ n \in 1..Len(seq) |-> [ hour |-> seq[n]._id, trip_count |-> seq[n].trip_count ] ]
\* a projection that forgets to rename _id to city
ProjectCityKeepId(seq) ==
    [ n \in 1..Len(seq) |->
        [ _id |-> seq[n]._id,
          avg_distance |-> RoundHalfEven(seq[n].sum_km, seq[n].trip_count),
          trip_count |-> seq[n].trip_count ] ]
\* {"$project": {"city": "$_id", "avg_distance": {"$round": ["$avg_distance", 2]},
\* "trip_count": 1, "_id": 0}}
ProjectCity(seq) ==
    [ n \in 1..Len(seq) |->
        [ city |-> seq[n]._id,
          avg_distance |-> RoundHalfEven(seq[n].sum_km, seq[n].trip_count),
          trip_count |-> seq[n].trip_count ] ]
\* {"$project": {"zone": "$_id", "trip_count": 1, "_id": 0}}
ProjectZone(seq) ==
    [ n \in 1..Len(seq) |-> [ zone |-> seq[n]._id, trip_count |-> seq[n].trip_count ] ]
\* {"$project": {"city": "$_id.city", "day_of_week": "$_id.day",
\* "trip_count": 1, "_id": 0}}
ProjectCityDay(seq) ==
    [ n \in 1..Len(seq) |->
        [ city |-> seq[n]._id.city, day_of_week |-> seq[n]._id.day,
          trip_count |-> seq[n].trip_count ] ]

\* a slice that keeps one row too many
SliceOneMore(seq, limit) ==
    IF limit >= 0 THEN SubSeq(seq, 1, Min(limit + 1, Len(seq)))
    ELSE SubSeq(seq, 1, Max(Len(seq) + limit, 0))
\* spark_data[:limit], the Python slice: a negative limit counts from the end
Slice(seq, limit) ==
    IF limit >= 0 THEN SubSeq(seq, 1, Min(limit, Len(seq)))
    ELSE SubSeq(seq, 1, Max(Len(seq) + limit, 0))

\* --- the answers
\* a request answered with rows; reads tells whether db.trips was queried
Answer(family, city, limit, reads, rows) ==
    [ family |-> family, city |-> city, limit |-> limit, status |-> "ok",
      reads |-> reads, rows |-> rows ]
\* a request that ended in an unhandled exception (HTTP 500)
Raised(family, city, limit, reads) ==
    [ family |-> family, city |-> city, limit |-> limit, status |-> "error",
      reads |-> reads, rows |-> << >> ]


\* a /stats/daily that serves the file whenever it holds rows, filter or not
daily_stats_file_first(file, coll, city) ==
    IF load_raises(file) THEN { Raised("daily", city, 0, FALSE) }
    ELSE IF spark_data_truthy(file)
    THEN { Answer("daily", city, 0, FALSE, load_spark_result(file)) }
    ELSE { Answer("daily", city, 0, TRUE, ProjectDate(p))
           : p \in SortById(GroupDate(IF Truthy(city) THEN Match(coll, city) ELSE coll)) }

\* GET /stats/daily
daily_stats(file, coll, city) ==
    IF load_raises(file) THEN { Raised("daily", city, 0, FALSE) }
    ELSE IF spark_data_truthy(file)
    THEN IF Truthy(city)
         THEN { Answer("daily", city, 0, TRUE, ProjectDate(p))
                : p \in SortById(GroupDate(Match(coll, city))) }
         ELSE { Answer("daily", city, 0, FALSE, load_spark_result(file)) }
    ELSE { Answer("daily", city, 0, TRUE, ProjectDate(p))
           : p \in SortById(GroupDate(IF Truthy(city) THEN Match(coll, city) ELSE coll)) }

\* GET /stats/hourly
hourly_stats(file, coll, city) ==
    IF load_raises(file) THEN { Raised("hourly", city, 0, FALSE) }
    ELSE IF spark_data_truthy(file) /\ ~Truthy(city)
    THEN { Answer("hourly", city, 0, FALSE, load_spark_result(file)) }
    ELSE { Answer("hourly", city, 0, TRUE, ProjectHour(p))
           : p \in SortById(GroupHour(IF Truthy(city) THEN Match(coll, city) ELSE coll)) }

\* GET /stats/cities
cities_stats(file, coll) ==
    IF load_raises(file) THEN { Raised("cities", None, 0, FALSE) }
    ELSE IF spark_data_truthy(file)
    THEN { Answer("cities", None, 0, FALSE, load_spark_result(file)) }
    ELSE { Answer("cities", None, 0, TRUE, ProjectCity(p))
           : p \in SortByCountDesc(GroupCity(coll)) }

\* GET /top-zones
top_zones_route(file, coll, limit) ==
    IF load_raises(file) THEN { Raised("top-zones", None, limit, FALSE) }
    ELSE IF spark_data_truthy(file)
    THEN { Answer("top-zones", None, limit, FALSE, Slice(load_spark_result(file), limit)) }
    ELSE IF limit_raises(limit) THEN { Raised("top-zones", None, limit, TRUE) }
    ELSE { Answer("top-zones", None, limit, TRUE, ProjectZone(Limit(p, limit)))
           : p \in SortByCountDesc(GroupZone(coll)) }

\* GET /stats/weekday
weekday_stats(file, coll) ==
    IF load_raises(file) THEN { Raised("weekday", None, 0, FALSE) }
    ELSE IF spark_data_truthy(file)
    THEN { Answer("weekday", None, 0, FALSE, load_spark_result(file)) }
    ELSE { Answer("weekday", None, 0, TRUE, ProjectCityDay(p))
           : p \in Unsorted(GroupCityDay(coll)) }

\* --- GET /trips
\* Query(100, le=1000, ...) of get_trips
DefaultTripsLimit == 100
MaxTripsLimit == 1000
\* ts.strftime("%Y-%m-%d") of a day number: the date string of a trip
strftime(day) == IF day = 1 THEN "2026-01-01" ELSE "2026-01-02"
\* query = {}; if city: query["city"] = city; if date: query["date"] = date
Query(city, date) ==
    { t \in Trips : /\ Truthy(city) => t.city = city
                    /\ Truthy(date) => strftime(t.date) = date }
\* db.trips.find(query, {"_id": 0}): the documents the query matches
find(coll, query) == Restrict(coll, query)
\* cursor.limit(n) of pymongo: 0 is no limit, and a negative n asks for one
\* batch of -n documents; which documents come first is the store's choice
cursor_limit(found, n) ==
    LET most == IF n = 0 THEN Count(found)
                ELSE Min(IF n < 0 THEN 0 - n ELSE n, Count(found))
    IN  { b \in SubBag(found) : Count(b) = most }
\* the answers of GET /trips: the list of trips, as a bag
TripsAnswer(city, date, limit, status, reads, rows) ==
    [ family |-> "trips", city |-> city, date |-> date, limit |-> limit,
      status |-> status, reads |-> reads, rows |-> rows ]
\* le=1000 is checked by FastAPI before get_trips is entered (HTTP 422)
get_trips(coll, city, date, limit) ==
    IF limit > MaxTripsLimit
    THEN { TripsAnswer(city, date, limit, "invalid", FALSE, EmptyBag) }
    ELSE { TripsAnswer(city, date, limit, "ok", TRUE, trips)
           : trips \in cursor_limit(find(coll, Query(city, date)), limit) }

\* the date parameters a caller sends: none, an empty one, a date of trips
DateParams == {None, "", strftime(1)}
\* the limit parameters a caller of /trips sends
TripsLimits == {-1, 0, 1, DefaultTripsLimit, MaxTripsLimit, MaxTripsLimit + 1}

\* the city parameters a caller sends: none, an empty one, a city the
\* generator uses, a city without trips
CityParams == {None, "", "Paris", "Nice"}
\* the limit parameters a caller sends: the parameter is any integer
Limits == {-1, 0, 1, DefaultLimit}

\* the file each route loads
FileOf(family) ==
    CASE family = "daily"     -> "daily.json"
      [] family = "hourly"    -> "rush_hours.json"
      [] family = "cities"    -> "avg_distance.json"
      [] family = "top-zones" -> "top_zones.json"
      [] family = "weekday"   -> "by_day_of_week.json"

\* A request is served in one step, in the state it arrives in: resp holds its
\* answer until Respond hands it to the caller, and the scripts take their
\* next step after that.
ServeDaily ==
    /\ resp = NoResp
    /\ \E city \in CityParams : resp' \in daily_stats(artifact[FileOf("daily")], collection, city)
    /\ UNCHANGED genVars
    /\ UNCHANGED aggVars

ServeHourly ==
    /\ resp = NoResp
    /\ \E city \in CityParams :
          resp' \in hourly_stats(artifact[FileOf("hourly")], collection, city)
    /\ UNCHANGED genVars
    /\ UNCHANGED aggVars

ServeCities ==
    /\ resp = NoResp
    /\ resp' \in cities_stats(artifact[FileOf("cities")], collection)
    /\ UNCHANGED genVars
    /\ UNCHANGED aggVars

ServeTopZones ==
    /\ resp = NoResp
    /\ \E limit \in Limits :
          resp' \in top_zones_route(artifact[FileOf("top-zones")], collection, limit)
    /\ UNCHANGED genVars
    /\ UNCHANGED aggVars

ServeWeekday ==
    /\ resp = NoResp
    /\ resp' \in weekday_stats(artifact[FileOf("weekday")], collection)
    /\ UNCHANGED genVars
    /\ UNCHANGED aggVars

ServeTrips ==
    /\ resp = NoResp
    /\ \E city \in CityParams, date \in DateParams, limit \in TripsLimits :
          resp' \in get_trips(collection, city, date, limit)
    /\ UNCHANGED genVars
    /\ UNCHANGED aggVars

\* the answer is sent and the handler returns: the API keeps nothing
Respond ==
    /\ resp # NoResp
    /\ resp' = NoResp
    /\ UNCHANGED genVars
    /\ UNCHANGED aggVars

\* ========================================================== specification
\* the trips of an earlier ingestion run
Earlier ==
    SeqToBag(<< MkTrip("Paris", "Zone A", [day |-> 1, hour |-> 8, km |-> 10]),
                MkTrip("Paris", "Zone A", [day |-> 1, hour |-> 8, km |-> 10]),
                MkTrip("Lyon", "Zone B", [day |-> 2, hour |-> 17, km |-> 20]) >>)

\* no script is running and no request is being served
Idle ==
    /\ gen_pc = "idle"
    /\ total_trips = 0
    /\ batch_size = 1
    /\ i = 0
    /\ batch_docs = << >>
    /\ agg_pc = "idle"
    /\ agg_k = 1
    /\ df = EmptyBag
    /\ pending = << >>
    /\ resp = NoResp

\* a new installation: empty stores, no file
InitFresh ==
    /\ Idle
    /\ collection = EmptyBag
    /\ trips_by_hour = [ k \in HourKeys |-> 0 ]
    /\ trips_by_zone = [ k \in ZoneKeys |-> 0 ]
    /\ artifact = [ f \in FileSet |-> Absent ]

\* an installation on which both scripts have run before: the stores hold
\* the trips of the earlier run and the files its five analyses
InitEarlier ==
    /\ Idle
    /\ collection = Earlier
    /\ trips_by_hour =
          [ k \in HourKeys |->
              Count(Restrict(Earlier, { t \in Trips : <<t.city, t.date, t.hour>> = k })) ]
    /\ trips_by_zone =
          [ k \in ZoneKeys |->
              Count(Restrict(Earlier, { t \in Trips : <<t.city, t.zone_start>> = k })) ]
    /\ artifact \in [ FileSet -> { Json(rows) : rows \in UNION { Collect(k, Earlier)
                                                               : k \in 1..Len(Files) } } ]
    /\ \A k \in 1..Len(Files) : artifact[Files[k]].rows \in Collect(k, Earlier)

Init == InitFresh \/ InitEarlier

Next ==
    \/ GenStart
    \/ GenDrop
    \/ GenTruncateHour
    \/ GenTruncateZone
    \/ GenTrip
    \/ GenInsertHour
    \/ GenInsertZone
    \/ GenBatch
    \/ GenRest
    \/ GenFail
    \/ AggStart
    \/ AggLoadFail
    \/ AggCollect
    \/ AggFail
    \/ AggDump
    \/ ServeDaily
    \/ ServeHourly
    \/ ServeCities
    \/ ServeTopZones
    \/ ServeWeekday
    \/ Respond

Spec == Init /\ [][Next]_vars

\* GET /trips reads the Record Store only: the ingestion script and the
\* requests to /trips
GenNext ==
    \/ GenStart
    \/ GenDrop
    \/ GenTruncateHour
    \/ GenTruncateZone
    \/ GenTrip
    \/ GenInsertHour
    \/ GenInsertZone
    \/ GenBatch
    \/ GenRest
    \/ GenFail

TripsNext ==
    \/ GenNext
    \/ ServeTrips
    \/ Respond

TripsSpec == Init /\ [][TripsNext]_vars

\* the ingestion script alone.  It is a sequential program: once started,
\* the interpreter executes its next statement until the script ends or a
\* call raises
GenSteps ==
    \/ GenDrop
    \/ GenTruncateHour
    \/ GenTruncateZone
    \/ GenTrip
    \/ GenInsertHour
    \/ GenInsertZone
    \/ GenBatch
    \/ GenRest

GenSpec == Init /\ [][GenNext]_vars /\ WF_vars(GenSteps)


\* ================================================================= claims
\* the trip_count column of an answer or of a file
TripCounts(rows) == [ n \in 1..Len(rows) |-> rows[n].trip_count ]
\* a request was just answered
Served == resp.status # "none"
\* the first n rows of a sequence, n >= 0
FirstRows(rows, n) == SubSeq(rows, 1, Min(n, Len(rows)))
\* the trips of one city now in the Record Store
TripsOfCity(city) ==
    [ t \in { u \in DOMAIN collection : u.city = city } |-> collection[t] ]
\* rows is the count of the trips of B per value of column kf, one row per
\* value that occurs, strictly ascending in that value
IsCountBy(rows, B, kf) ==
    /\ \A n, m \in 1..Len(rows) : n < m => rows[n][kf] < rows[m][kf]
    /\ { rows[n][kf] : n \in 1..Len(rows) } = { t[kf] : t \in DOMAIN B }
    /\ \A n \in 1..Len(rows) :
          rows[n].trip_count
            = BagCardinality([ t \in { u \in DOMAIN B : u[kf] = rows[n][kf] } |-> B[t] ])

\* C1: after a failure-free ingestion run of N trips and a Batch Aggregator
\* run over what it stored, each of the five endpoints, asked without filter
\* and with the default limit, answers rows whose trip_count values sum to N.
RoundTripSumsToN ==
    ( /\ Served
      /\ gen_pc = "done"
      /\ agg_pc = "done"
      /\ df = collection
      /\ resp.city = None
      /\ resp.family = "top-zones" => resp.limit = DefaultLimit )
    => /\ resp.status = "ok"
       /\ SeqSum(TripCounts(resp.rows)) = total_trips

\* C1 happens: two trips were ingested and aggregated, and /top-zones
\* answers two zones from the file
RoundTripWitness ==
    /\ gen_pc = "done"
    /\ agg_pc = "done"
    /\ df = collection
    /\ total_trips >= 2
    /\ resp.family = "top-zones"
    /\ resp.limit = DefaultLimit
    /\ resp.status = "ok"
    /\ ~resp.reads
    /\ Len(resp.rows) = 2

\* C2: when the file of a family holds a non-empty array and the request has
\* no filter, the answer is that array as it is (for /top-zones a prefix of
\* it, its first `limit` rows when limit >= 0) and db.trips is not queried.
ArtifactVerbatim ==
    ( /\ Served
      /\ ~Truthy(resp.city)
      /\ artifact[FileOf(resp.family)].state = "json"
      /\ artifact[FileOf(resp.family)].rows # << >> )
    => LET rows == artifact[FileOf(resp.family)].rows
       IN  /\ resp.status = "ok"
           /\ ~resp.reads
           /\ resp.family # "top-zones" => resp.rows = rows
           /\ resp.family = "top-zones" =>
                 /\ Len(resp.rows) <= Len(rows)
                 /\ resp.rows = SubSeq(rows, 1, Len(resp.rows))
                 /\ resp.limit >= 0 => resp.rows = FirstRows(rows, resp.limit)

\* C2 happens: top_zones.json holds two rows that count other trips than
\* db.trips holds now, and /top-zones?limit=1 answers the first row of the file
ArtifactVerbatimWitness ==
    /\ resp.family = "top-zones"
    /\ resp.limit = 1
    /\ resp.status = "ok"
    /\ Len(artifact[FileOf("top-zones")].rows) = 2
    /\ resp.rows = << artifact[FileOf("top-zones")].rows[1] >>
    /\ SeqSum(TripCounts(artifact[FileOf("top-zones")].rows)) # Count(collection)

\* C3: an answered /stats/daily or /stats/hourly request with a city filter
\* was computed from db.trips over exactly the trips of that city, and is an
\* answer the route gives for the same request when the file is missing.
FilteredIsLive ==
    ( /\ Served
      /\ resp.family \in {"daily", "hourly"}
      /\ Truthy(resp.city)
      /\ resp.status = "ok" )
    => /\ resp.reads
       /\ IsCountBy(resp.rows, TripsOfCity(resp.city),
                    IF resp.family = "daily" THEN "date" ELSE "hour")
       /\ resp.family = "daily" => resp \in daily_stats(Absent, collection, resp.city)
       /\ resp.family = "hourly" => resp \in hourly_stats(Absent, collection, resp.city)

\* C3 happens: daily.json holds rows, and /stats/daily?city=Paris answers
\* rows that are not those of the file
FilteredIsLiveWitness ==
    /\ resp.family = "daily"
    /\ resp.city = "Paris"
    /\ resp.status = "ok"
    /\ artifact[FileOf("daily")].state = "json"
    /\ artifact[FileOf("daily")].rows # << >>
    /\ resp.rows # << >>
    /\ resp.rows # artifact[FileOf("daily")].rows


\* the field names of the rows of each family, as section 6 lists them
Schema(family) ==
    CASE family = "daily"     -> {"date", "trip_count"}
      [] family = "hourly"    -> {"hour", "trip_count"}
      [] family = "cities"    -> {"city", "avg_distance", "trip_count"}
      [] family = "top-zones" -> {"zone", "trip_count"}
      [] family = "weekday"   -> {"city", "day_of_week", "trip_count"}
\* the analysis of analytics.py that writes the file of a family
AnalysisOf(family) == CHOOSE k \in 1..Len(Files) : Files[k] = FileOf(family)
FieldsOf(rows) == { DOMAIN rows[n] : n \in 1..Len(rows) }

\* the file of the family just asked for is missing or holds an empty array
NoArtifact ==
    \/ artifact[FileOf(resp.family)].state = "absent"
    \/ /\ artifact[FileOf(resp.family)].state = "json"
       /\ artifact[FileOf(resp.family)].rows = << >>
\* the answer is the aggregate of the family over db.trips as it is now (over
\* the trips of the city, for a filtered request): answered, read from
\* db.trips, empty when db.trips is empty, counting every trip once
AnsweredLive ==
    /\ resp.status = "ok"
    /\ resp.reads
    /\ collection = EmptyBag => resp.rows = << >>
    /\ resp.family \in {"daily", "hourly"} =>
          IsCountBy(resp.rows,
                    IF Truthy(resp.city) THEN TripsOfCity(resp.city) ELSE collection,
                    IF resp.family = "daily" THEN "date" ELSE "hour")
    /\ resp.family \in {"cities", "weekday"} =>
          SeqSum(TripCounts(resp.rows)) = Count(collection)
    /\ resp.family = "top-zones" =>
          /\ Len(resp.rows) <= resp.limit
          /\ resp.limit >= Cardinality(zones) =>
                SeqSum(TripCounts(resp.rows)) = Count(collection)

\* C4 as stated: whenever the file of the family is missing or holds an
\* empty array, the request is answered with the aggregate computed from
\* db.trips as it is now, an empty sequence when db.trips is empty (a limit
\* being a number of rows, L >= 0).
LiveFallback ==
    (Served /\ NoArtifact /\ (resp.family = "top-zones" => resp.limit >= 0))
    => AnsweredLive

\* C4 for every request but /top-zones with limit <= 0 (holds: the four other
\* families and /top-zones with a positive limit fall back as stated)
LiveFallbackPositiveLimit ==
    (Served /\ NoArtifact /\ (resp.family = "top-zones" => resp.limit >= 1))
    => AnsweredLive

\* C5: the rows of a live answer carry exactly the field names of their
\* family, and so do the rows the Batch Aggregator lists for that family
\* from the same Record Store contents.
SameSchema ==
    ( Served /\ resp.status = "ok" /\ resp.reads )
    => /\ FieldsOf(resp.rows) \subseteq { Schema(resp.family) }
       /\ \A rows \in Collect(AnalysisOf(resp.family), collection) :
             FieldsOf(rows) \subseteq { Schema(resp.family) }

\* C5 happens: avg_distance.json is missing and /stats/cities answers two
\* rows computed from db.trips
SameSchemaWitness ==
    /\ resp.family = "cities"
    /\ resp.status = "ok"
    /\ resp.reads
    /\ artifact[FileOf("cities")].state = "absent"
    /\ Len(resp.rows) = 2

\* C6 as stated: a request that finds the file of its family malformed is
\* answered as if the file were missing, from db.trips.
CorruptIsMissing ==
    ( Served /\ artifact[FileOf(resp.family)].state = "malformed" )
    => /\ resp.status = "ok"
       /\ resp.reads


\* the generation loop is running
InLoop == gen_pc \in {"loop", "insert_hour", "insert_zone", "batch"}

\* C7: in a run without failure, the pass of a trip adds exactly one to the
\* trips_by_hour bucket of its (city, date, hour) and exactly one to the
\* trips_by_zone bucket of its (city, zone_start) and changes no other
\* bucket, no step of the loop lowers a bucket, and when the run ends every
\* (city, zone) bucket holds the number of stored trips of that city and
\* zone: K when all K trips have city X and zone_start Y.
CountersCountTrips ==
    [][ /\ (gen_pc = "insert_hour" /\ gen_pc' = "insert_zone") =>
             LET trip == Last(batch_docs)
             IN  \A k \in HourKeys :
                    trips_by_hour'[k] = trips_by_hour[k]
                        + (IF k = <<trip.city, trip.date, trip.hour>> THEN 1 ELSE 0)
        /\ (gen_pc = "insert_zone" /\ gen_pc' = "batch") =>
             LET trip == Last(batch_docs)
             IN  \A k \in ZoneKeys :
                    trips_by_zone'[k] = trips_by_zone[k]
                        + (IF k = <<trip.city, trip.zone_start>> THEN 1 ELSE 0)
        /\ (InLoop /\ ~(gen_pc = "insert_hour" /\ gen_pc' = "insert_zone")) =>
             trips_by_hour' = trips_by_hour
        /\ (InLoop /\ ~(gen_pc = "insert_zone" /\ gen_pc' = "batch")) =>
             trips_by_zone' = trips_by_zone
        /\ (InLoop /\ gen_pc' \in {"loop", "done"}) =>
             \A k \in ZoneKeys : trips_by_zone'[k]
                = Count(Restrict(collection' (+) SeqToBag(IF gen_pc' = "done" THEN << >>
                                                           ELSE batch_docs'),
                                 { t \in Trips : t.city = k[1] /\ t.zone_start = k[2] }))
      ]_vars

\* C7 happens: a run of K >= 2 trips ended without failure, all its trips
\* have one city and one zone_start, and that bucket holds K
CountersWitness ==
    /\ gen_pc = "done"
    /\ total_trips >= 2
    /\ Count(collection) = total_trips
    /\ \E k \in ZoneKeys :
          /\ \A t \in DOMAIN collection : t.city = k[1] /\ t.zone_start = k[2]
          /\ trips_by_zone[k] = total_trips

\* C8 as stated: /top-zones with limit L (a number of rows, L >= 0) answers
\* at most L rows, no row has a smaller trip_count than the next, and rows of
\* equal trip_count come in the order of their zone names.
TopZonesOrdered ==
    ( Served /\ resp.family = "top-zones" /\ resp.status = "ok" )
    => /\ resp.limit >= 0 => Len(resp.rows) <= resp.limit
       /\ \A n \in 1..(Len(resp.rows) - 1) :
             \/ resp.rows[n].trip_count > resp.rows[n + 1].trip_count
             \/ /\ resp.rows[n].trip_count = resp.rows[n + 1].trip_count
                /\ Rank(resp.rows[n].zone) < Rank(resp.rows[n + 1].zone)

\* C9 as stated: /stats/cities answers one row per city, no row with a
\* smaller trip_count than the next.
CitiesByCountDesc ==
    ( Served /\ resp.family = "cities" /\ resp.status = "ok" )
    => /\ \A n, m \in 1..Len(resp.rows) : n # m => resp.rows[n].city # resp.rows[m].city
       /\ \A n \in 1..(Len(resp.rows) - 1) :
             resp.rows[n].trip_count >= resp.rows[n + 1].trip_count

\* C10 as stated: /stats/weekday answers one row per (city, day_of_week),
\* cities in ascending order and, within a city, no row with a smaller
\* trip_count than the next.
WeekdayOrdered ==
    ( Served /\ resp.family = "weekday" /\ resp.status = "ok" )
    => /\ \A n, m \in 1..Len(resp.rows) :
             n # m => << resp.rows[n].city, resp.rows[n].day_of_week >>
                        # << resp.rows[m].city, resp.rows[m].day_of_week >>
       /\ \A n \in 1..(Len(resp.rows) - 1) :
             \/ Rank(resp.rows[n].city) < Rank(resp.rows[n + 1].city)
             \/ /\ resp.rows[n].city = resp.rows[n + 1].city
                /\ resp.rows[n].trip_count >= resp.rows[n + 1].trip_count

\* the files the present run of analytics.py (or, when none is running, the
\* last one) has opened for writing
Overwritten ==
    CASE agg_pc = "idle" -> {}
      [] agg_pc = "done" -> FileSet
      [] agg_pc = "dump" -> { Files[k] : k \in 1..agg_k }
      [] OTHER -> { Files[k] : k \in 1..(agg_k - 1) }

\* C11 as stated: when a run of the Batch Aggregator has ended, by its last
\* statement or by a failure, it has overwritten all five files or none.
AllOrNoArtifact ==
    agg_pc \in {"done", "aborted"} => Overwritten \in { {}, FileSet }

\* C12 as stated: a store write that fails while trips remain to be
\* generated does not end the ingestion run: the script goes on with the
\* rest of the pass and with the later trips.
FailedWriteDoesNotAbort ==
    [][ ( InLoop /\ i + 1 < total_trips ) => gen_pc' # "aborted" ]_vars

\* a request to /trips was just answered
ServedTrips == resp.family = "trips"

\* C13 as stated: /trips with a limit above 1000 is refused as invalid
\* without a read of the Record Store; with any other limit L (a number of
\* rows, L >= 0) it answers at most L trips, each with the city and the date
\* that were asked for.
TripsLimited ==
    ServedTrips =>
       /\ resp.limit > MaxTripsLimit => resp.status = "invalid" /\ ~resp.reads
       /\ resp.limit <= MaxTripsLimit =>
             /\ resp.status = "ok"
             /\ resp.limit >= 0 => Count(resp.rows) <= resp.limit
             /\ \A t \in DOMAIN resp.rows :
                   /\ Truthy(resp.city) => t.city = resp.city
                   /\ Truthy(resp.date) => strftime(t.date) = resp.date

\* what holds of /trips: the same with a limit L >= 1, and the trips are
\* trips of the Record Store
TripsLimitedPositive ==
    ServedTrips =>
       /\ resp.limit > MaxTripsLimit => resp.status = "invalid" /\ ~resp.reads
       /\ resp.limit <= MaxTripsLimit =>
             /\ resp.status = "ok"
             /\ resp.limit >= 1 => Count(resp.rows) <= resp.limit
             /\ resp.rows \sqsubseteq collection
             /\ \A t \in DOMAIN resp.rows :
                   /\ Truthy(resp.city) => t.city = resp.city
                   /\ Truthy(resp.date) => strftime(t.date) = resp.date

\* C14: a run started with any N and B ends (by its last statement unless a
\* store call fails); the batch never holds more than B trips and fewer than
\* B between two passes; each generated trip is appended to the batch once;
\* a batch that reaches B is written as a whole by one insert_many and
\* cleared; what remains after the last pass is written by one insert_many;
\* no other step writes to the Record Store; and a run that ends without
\* failure leaves exactly its N trips in the Record Store.
BatchesHoldEveryTrip ==
    /\ []( InLoop => Len(batch_docs) <= batch_size )
    /\ []( gen_pc = "loop" =>
              /\ Len(batch_docs) < batch_size
              /\ Count(collection) + Len(batch_docs) = i
              /\ i <= total_trips )
    /\ []( gen_pc = "done" => Count(collection) = total_trips )
    /\ [][ InLoop =>
             /\ (gen_pc = "loop" /\ gen_pc' = "insert_hour") =>
                   /\ \E t \in Trips : batch_docs' = Append(batch_docs, t)
                   /\ collection' = collection
             /\ (gen_pc = "batch" /\ gen_pc' = "loop") =>
                   IF Len(batch_docs) = batch_size
                   THEN /\ collection' = collection (+) SeqToBag(batch_docs)
                        /\ batch_docs' = << >>
                   ELSE /\ collection' = collection
                        /\ batch_docs' = batch_docs
             /\ gen_pc' = "done" =>
                   collection' = collection (+) SeqToBag(batch_docs)
             /\ gen_pc \in {"insert_hour", "insert_zone"} =>
                   /\ collection' = collection
                   /\ gen_pc' # "aborted" => batch_docs' = batch_docs
       ]_vars
    /\ (gen_pc = "drop") ~> (gen_pc \in {"done", "aborted"})

\* C14 happens: a run of two trips with batches of two has ended; the one
\* batch was written when it was full and nothing remained after the loop
BatchesWitness ==
    /\ gen_pc = "done"
    /\ total_trips = 2
    /\ batch_size = 2
    /\ batch_docs = << >>
    /\ Count(collection) = 2

\* C15: ingestion is not additive.  When the first pass of the loop begins,
\* the Record Store and both counter tables are empty, whatever they held
\* before the run; and when a run with target N has ended without failure,
\* the Record Store holds N trips and every bucket of both tables holds the
\* number of those trips that fall into it.
IngestionReplaces ==
    /\ ( gen_pc = "loop" /\ i = 0 ) =>
          /\ collection = EmptyBag
          /\ \A k \in HourKeys : trips_by_hour[k] = 0
          /\ \A k \in ZoneKeys : trips_by_zone[k] = 0
    /\ gen_pc = "done" =>
          /\ Count(collection) = total_trips
          /\ \A k \in HourKeys :
                trips_by_hour[k]
                   = Count(Restrict(collection,
                                    { t \in Trips : <<t.city, t.date, t.hour>> = k }))
          /\ \A k \in ZoneKeys :
                trips_by_zone[k]
                   = Count(Restrict(collection,
                                    { t \in Trips : <<t.city, t.zone_start>> = k }))

\* C15 happens: the stores held the three trips of an earlier run (whose
\* files are still there), a run with target 1 has ended, and the Record
\* Store holds one trip
IngestionReplacesWitness ==
    /\ gen_pc = "done"
    /\ agg_pc = "idle"
    /\ artifact["daily.json"].state = "json"
    /\ total_trips = 1
    /\ Count(collection) = 1
    /\ SeqSum([ n \in 1..Len(artifact["daily.json"].rows)
                  |-> artifact["daily.json"].rows[n].trip_count ]) = 3

\* the trips a file was computed from: those the present run of analytics.py
\* loaded if it has written the file, those of the earlier run otherwise
AggregatedFor(f) == IF f \in Overwritten THEN df ELSE Earlier

\* C16: the daily (hourly) result has one row per date (hour) that occurs
\* among the trips it aggregates and no other row, the rows strictly
\* ascending in date (hour), each trip_count the number of those trips with
\* that date (hour): for daily.json and rush_hours.json over the trips the
\* job loaded, for an answer served from a file as the file has it, and for
\* an answer computed from db.trips over the trips (of the city asked for)
\* now in the Record Store.
DailyHourlyRows ==
    /\ \A family \in {"daily", "hourly"} :
          LET f == FileOf(family)
              key == IF family = "daily" THEN "date" ELSE "hour"
          IN  artifact[f].state = "json" =>
                 IsCountBy(artifact[f].rows, AggregatedFor(f), key)
    /\ ( Served /\ resp.family \in {"daily", "hourly"} /\ resp.status = "ok" ) =>
          LET key == IF resp.family = "daily" THEN "date" ELSE "hour"
          IN  IF resp.reads
              THEN IsCountBy(resp.rows,
                             IF Truthy(resp.city) THEN TripsOfCity(resp.city)
                             ELSE collection,
                             key)
              ELSE IsCountBy(resp.rows, AggregatedFor(FileOf(resp.family)), key)

\* C16 happens: the job has run over trips of two dates, and /stats/daily
\* answers from its file two rows, the first one counting two trips
DailyHourlyWitness ==
    /\ agg_pc = "done"
    /\ Served
    /\ resp.family = "daily"
    /\ resp.status = "ok"
    /\ ~resp.reads
    /\ Len(resp.rows) = 2
    /\ resp.rows[1].trip_count = 2

\* the place of a file in the list of the five analyses
FileIndex(f) == CHOOSE k \in 1..Len(Files) : Files[k] = f

\* C17: no step of the ingestion script changes a file or what the job
\* loaded; a request without filter that finds rows in the file of its
\* family is answered with those rows (for /top-zones a prefix of them),
\* which are the analysis of the trips the job loaded when it wrote the
\* file, and db.trips is not read; a /stats/daily or /stats/hourly request
\* with a city filter is answered from db.trips with the counts of the trips
\* of that city now in the Record Store.
FreshnessFollowsAggregator ==
    [][ /\ gen_pc' # gen_pc => ( artifact' = artifact /\ df' = df )
        /\ ( resp = NoResp /\ resp' # NoResp /\ resp'.status = "ok" ) =>
              LET f == FileOf(resp'.family)
                  file == artifact[f]
              IN  /\ ( ~Truthy(resp'.city) /\ file.state = "json" /\ file.rows # << >> ) =>
                        /\ ~resp'.reads
                        /\ Len(resp'.rows) <= Len(file.rows)
                        /\ resp'.rows = SubSeq(file.rows, 1, Len(resp'.rows))
                        /\ resp'.family # "top-zones" => resp'.rows = file.rows
                        /\ file.rows \in Collect(FileIndex(f), AggregatedFor(f))
                  /\ ( Truthy(resp'.city) /\ resp'.family \in {"daily", "hourly"} ) =>
                        /\ resp'.reads
                        /\ IsCountBy(resp'.rows, TripsOfCity(resp'.city),
                                     IF resp'.family = "daily" THEN "date" ELSE "hour")
      ]_vars

\* C17 happens: the job ran, then the ingestion script replaced the trips,
\* and /stats/daily without filter answers the rows of the file, which count
\* other trips than the Record Store holds now
FreshnessWitness ==
    /\ agg_pc = "done"
    /\ gen_pc = "done"
    /\ df # collection
    /\ Served
    /\ resp.family = "daily"
    /\ resp.city = None
    /\ resp.status = "ok"
    /\ ~resp.reads
    /\ resp.rows = artifact["daily.json"].rows
    /\ SeqSum(TripCounts(resp.rows)) # Count(collection)

\* the sum of the buckets S of a counter table
RECURSIVE SumOf(_, _)
SumOf(tbl, S) ==
    IF S = {} THEN 0
    ELSE LET k == CHOOSE x \in S : TRUE
         IN  tbl[k] + SumOf(tbl, S \ {k})

\* C18: between two passes of the loop of a run without failure, the
\* buckets of trips_by_zone and those of trips_by_hour both sum to the
\* number of trips in the Record Store plus the length of the batch, which
\* is below BATCH_SIZE; when the run has ended, every bucket of either table
\* equals the number of trips of the Record Store with its key.
CountersAheadByBatch ==
    /\ gen_pc = "loop" =>
          /\ SumOf(trips_by_zone, ZoneKeys) = Count(collection) + Len(batch_docs)
          /\ SumOf(trips_by_hour, HourKeys) = Count(collection) + Len(batch_docs)
          /\ SumOf(trips_by_zone, ZoneKeys) - Count(collection) < batch_size
    /\ gen_pc = "done" =>
          /\ \A t \in Trips :
                /\ trips_by_zone[<<t.city, t.zone_start>>]
                     = Count(Restrict(collection,
                                      { u \in Trips : /\ u.city = t.city
                                                      /\ u.zone_start = t.zone_start }))
                /\ trips_by_hour[<<t.city, t.date, t.hour>>]
                     = Count(Restrict(collection,
                                      { u \in Trips : /\ u.city = t.city
                                                      /\ u.date = t.date
                                                      /\ u.hour = t.hour }))
          /\ SumOf(trips_by_zone, ZoneKeys) = Count(collection)
          /\ SumOf(trips_by_hour, HourKeys) = Count(collection)

\* C18 happens: after the first pass of a run with batches of two, the
\* tables count one trip and the Record Store holds none
CountersAheadWitness ==
    /\ gen_pc = "loop"
    /\ i = 1
    /\ batch_size = 2
    /\ Len(batch_docs) = 1
    /\ Count(collection) = 0
    /\ SumOf(trips_by_zone, ZoneKeys) = 1
    /\ SumOf(trips_by_hour, HourKeys) = 1

\* C19 as stated: a request served while analytics.py is running is
\* answered (for /top-zones, with a limit of at least one row), and an
\* answer taken from a file is the whole list the file holds (for
\* /top-zones a prefix of it): the list of the earlier run or of this one.
ConcurrentQueryAnswered ==
    ( /\ Served
      /\ agg_pc \in {"collect", "dump"}
      /\ resp.family = "top-zones" => resp.limit >= 1 )
    => /\ resp.status = "ok"
       /\ ~resp.reads =>
             LET f == FileOf(resp.family)
             IN  /\ artifact[f].state = "json"
                 /\ artifact[f].rows \in Collect(FileIndex(f), AggregatedFor(f))
                 /\ resp.rows = SubSeq(artifact[f].rows, 1, Len(resp.rows))

====
